---- MODULE Spec2Model ----
(***************************************************************************)
(* Verification model of the gongja counselling service                    *)
(* (src/gongja.py, src/utils.py, src/main.py, src/send_mail.py).           *)
(*                                                                         *)
(* Texts.  A text (a Python str) is a sequence of units.  A unit is either *)
(* one character that the extraction code or the JSON grammar inspects     *)
(* (quote, colon, comma, braces, backtick, space, newline, tab, "<", ">")  *)
(* or a run of letters and digits that neither of them ever splits         *)
(* ("STEP-1", "true", "json", "1").  Korean words are written romanised    *)
(* ("yoyak" for the key of the summary, "chullyeok" "gyeolgwa" for the two *)
(* words of the marker).                                                   *)
(*                                                                         *)
(* JSON values are tagged tuples: <<"str", text>>, <<"num", text>>,        *)
(* <<"bool", b>>, <<"null">>, <<"obj", f>> with f a function from key      *)
(* texts to values (a Python dict), and <<"none">> for "no value".         *)
(***************************************************************************)
EXTENDS Integers, Sequences, FiniteSets, TLC

(***************************************************************************)
(* Bounds of the model.                                                    *)
(***************************************************************************)
MaxItems == 2
MaxPeriod == 2

(***************************************************************************)
(* Text helpers (Python str operations used by _parse_response).           *)
(***************************************************************************)
Marker == <<"<", "chullyeok", " ", "gyeolgwa", ">">>
\* the unit "bt" stands for the backtick character
Fence == <<"bt", "bt", "bt">>
PyWhitespace == {" ", "\n", "\t"}
StripChars == {":", " ", "\n"}
JsonWhitespace == {" ", "\n", "\t"}
Digits == {"0", "1", "2"}

\* s[i:] in Python terms, with i a 1-based index of the first unit kept
From(s, i) == SubSeq(s, i, Len(s))

\* pat occurs in s at position i
OccursAt(s, pat, i) ==
    /\ i >= 1
    /\ i + Len(pat) - 1 <= Len(s)
    /\ SubSeq(s, i, i + Len(pat) - 1) = pat

\* str.find(pat, start): the first position >= i where pat occurs, 0 if none
Find(s, pat, i) ==
    LET hits == {j \in i..(Len(s) - Len(pat) + 1) : OccursAt(s, pat, j)}
    IN  IF hits = {} THEN 0 ELSE CHOOSE j \in hits : \A k \in hits : j <= k

\* pat in s
Contains(s, pat) == Find(s, pat, 1) # 0

StartsWith(s, pat) == OccursAt(s, pat, 1)

EndsWith(s, pat) == OccursAt(s, pat, Len(s) - Len(pat) + 1)

\* str.strip(chars): drop the leading and trailing units that are in chars
Strip(s, chars) ==
    LET keep == {i \in 1..Len(s) : s[i] \notin chars}
    IN  IF keep = {} THEN <<>>
        ELSE SubSeq(s, CHOOSE i \in keep : \A k \in keep : i <= k,
                       CHOOSE i \in keep : \A k \in keep : i >= k)

\* content.split(sep)[1]: the text between the first and the second
\* occurrence of sep (up to the end when there is no second occurrence)
SplitSecond(s, sep) ==
    LET i1 == Find(s, sep, 1)
        st == i1 + Len(sep)
        i2 == Find(s, sep, st)
    IN  IF i2 = 0 THEN From(s, st) ELSE SubSeq(s, st, i2 - 1)

(***************************************************************************)
(* json.loads on a text.  Parse results are <<ok, value, next position>>.  *)
(***************************************************************************)
NoValue == <<"none">>
ParseFail == <<FALSE, NoValue, 0>>
EmptyDict == [k \in {} |-> NoValue]

\* first position >= i that holds no JSON whitespace (Len(s) + 1 if none)
SkipWs(s, i) ==
    LET rest == {k \in i..Len(s) : s[k] \notin JsonWhitespace}
    IN  IF rest = {} THEN Len(s) + 1
        ELSE CHOOSE k \in rest : \A m \in rest : k <= m

\* a string literal opening at s[i]; control characters are rejected
ParseString(s, i) ==
    LET close == Find(s, <<"\"">>, i + 1)
        body == SubSeq(s, i + 1, close - 1)
    IN  IF close = 0 THEN ParseFail
        ELSE IF \E k \in 1..Len(body) : body[k] \in {"\n", "\t"} THEN ParseFail
        ELSE <<TRUE, <<"str", body>>, close + 1>>

\* a number opening at s[i]: "0", or a run of digits not led by "0"
ParseNumber(s, i) ==
    LET stop == {k \in i..Len(s) : s[k] \notin Digits}
        end == IF stop = {} THEN Len(s) + 1
               ELSE CHOOSE k \in stop : \A m \in stop : k <= m
    IN  IF s[i] = "0" THEN <<TRUE, <<"num", <<"0">>>>, i + 1>>
        ELSE <<TRUE, <<"num", SubSeq(s, i, end - 1)>>, end>>

RECURSIVE ParseValue(_, _)
RECURSIVE ParseMembers(_, _, _)

\* the members of an object, s[i] being the opening quote of the next key;
\* a repeated key keeps its last value, as a Python dict does
ParseMembers(s, i, acc) ==
    IF i > Len(s) \/ s[i] # "\"" THEN ParseFail
    ELSE LET key == ParseString(s, i)
             c == SkipWs(s, key[3])
         IN  IF ~key[1] \/ c > Len(s) \/ s[c] # ":" THEN ParseFail
             ELSE LET val == ParseValue(s, SkipWs(s, c + 1))
                      e == SkipWs(s, val[3])
                      dict == (key[2][2] :> val[2]) @@ acc
                  IN  IF ~val[1] \/ e > Len(s) THEN ParseFail
                      ELSE IF s[e] = "}" THEN <<TRUE, <<"obj", dict>>, e + 1>>
                      ELSE IF s[e] = "," THEN ParseMembers(s, SkipWs(s, e + 1), dict)
                      ELSE ParseFail

\* one JSON value opening at s[i]
ParseValue(s, i) ==
    IF i > Len(s) THEN ParseFail
    ELSE IF s[i] = "\"" THEN ParseString(s, i)
    ELSE IF s[i] = "true" THEN <<TRUE, <<"bool", TRUE>>, i + 1>>
    ELSE IF s[i] = "false" THEN <<TRUE, <<"bool", FALSE>>, i + 1>>
    ELSE IF s[i] = "null" THEN <<TRUE, <<"null">>, i + 1>>
    ELSE IF s[i] \in Digits THEN ParseNumber(s, i)
    ELSE IF s[i] = "{" THEN
        LET j == SkipWs(s, i + 1)
        IN  IF j <= Len(s) /\ s[j] = "}" THEN <<TRUE, <<"obj", EmptyDict>>, j + 1>>
            ELSE ParseMembers(s, j, EmptyDict)
    ELSE ParseFail

\* json.loads(s): <<TRUE, value>>, or <<FALSE, NoValue>> for JSONDecodeError
JsonLoads(s) ==
    LET r == ParseValue(s, SkipWs(s, 1))
    IN  IF r[1] /\ SkipWs(s, r[3]) = Len(s) + 1 THEN <<TRUE, r[2]>>
        ELSE <<FALSE, NoValue>>

(***************************************************************************)
(* GongjaProcessor._parse_response.                                        *)
(*                                                                         *)
(* A response is <<"content", text>> (choices[0].message.content is the    *)
(* text), <<"nocontent">> (the content is None) or one of the shapes for   *)
(* which line 61 raises before content is assigned: <<"nochoices">> (no    *)
(* 'choices' entry, KeyError), <<"emptychoices">> (an empty choices list,  *)
(* IndexError), <<"nokey">> (the message has no 'content' entry, KeyError).*)
(***************************************************************************)
\* line 61: the shapes for which the local content is never assigned
ContentUnassigned == {"nochoices", "emptychoices", "nokey"}

\* the message of the ValueError raised by _parse_response
ParseFailureMessage == <<"JSON", " ", "pasing", " ", "silpae">>

\* lines 64-68: the marker step, including its trim
MarkerStep(content) ==
    IF Contains(content, Marker)
    THEN Strip(SplitSecond(content, Marker), PyWhitespace)
    ELSE Strip(content, PyWhitespace)

\* lines 70-79: the code fence step
FenceStep(text) ==
    IF StartsWith(text, Fence)
    THEN LET nl == Find(text, <<"\n">>, 1)
             body == IF nl # 0 THEN Strip(From(text, nl), PyWhitespace) ELSE text
         IN  IF EndsWith(body, Fence)
             THEN Strip(SubSeq(body, 1, Len(body) - 3), PyWhitespace)
             ELSE body
    ELSE text

\* mutant of TrimStep: quotes are stripped as well
TrimStepQuotes(text) == Strip(text, StripChars \cup {"\""})

\* line 82: strip blanks, colons and newlines
TrimStep(text) == Strip(text, StripChars)

\* the text handed to json.loads
JsonText(content) == TrimStep(FenceStep(MarkerStep(content)))

\* mutant of ParseResponse: a text that does not decode is recovered as an
\* empty record instead of being raised
ParseResponseLenient(response) ==
    IF response[1] = "content" /\ JsonLoads(JsonText(response[2]))[1]
    THEN [kind |-> "return", value |-> JsonLoads(JsonText(response[2]))[2], exc |-> "",
          args |-> <<>>, context |-> <<>>, printed |-> <<response[2]>>,
          after_marker |-> MarkerStep(response[2]),
          json_text |-> JsonText(response[2])]
    ELSE [kind |-> "return", value |-> <<"obj", EmptyDict>>, exc |-> "",
          args |-> <<>>, context |-> <<>>, printed |-> <<>>,
          after_marker |-> <<>>, json_text |-> <<>>]

\* The outcome of _parse_response: kind "return" with the value, or kind
\* "raise" with the exception type exc, its args, the document of the chained
\* JSONDecodeError (context, empty when the cause is another exception) and
\* the texts printed on the console.
ParseResponse(response) ==
    IF response[1] \in ContentUnassigned THEN
        [kind |-> "raise", value |-> NoValue, exc |-> "UnboundLocalError",
         args |-> <<>>, context |-> <<>>, printed |-> <<>>,
         after_marker |-> <<>>, json_text |-> <<>>]
    ELSE IF response[1] = "nocontent" THEN
        [kind |-> "raise", value |-> NoValue, exc |-> "ValueError",
         args |-> <<ParseFailureMessage>>, context |-> <<>>, printed |-> <<>>,
         after_marker |-> <<>>, json_text |-> <<>>]
    ELSE LET content == response[2]
             json_text == JsonText(content)
             loaded == JsonLoads(json_text)
         IN  IF loaded[1] THEN
                 [kind |-> "return", value |-> loaded[2], exc |-> "",
                  args |-> <<>>, context |-> <<>>, printed |-> <<content>>,
                  after_marker |-> MarkerStep(content), json_text |-> json_text]
             ELSE
                 [kind |-> "raise", value |-> NoValue, exc |-> "ValueError",
                  args |-> <<ParseFailureMessage>>, context |-> <<json_text>>,
                  printed |-> <<content, json_text, content>>,
                  after_marker |-> MarkerStep(content), json_text |-> json_text]

(***************************************************************************)
(* Python operations on the extracted records.                             *)
(***************************************************************************)
PyNone == <<"null">>

\* v[key]: <<TRUE, value, "">>, or <<FALSE, NoValue, exception type>>
Get(v, key) ==
    IF v[1] # "obj" THEN <<FALSE, NoValue, "TypeError">>
    ELSE IF key \notin DOMAIN v[2] THEN <<FALSE, NoValue, "KeyError">>
    ELSE <<TRUE, v[2][key], "">>

\* v[k1][k2]
Get2(v, k1, k2) ==
    LET outer == Get(v, k1)
    IN  IF outer[1] THEN Get(outer[2], k2) ELSE outer

\* bool(v)
Truthy(v) ==
    CASE v[1] = "bool" -> v[2]
      [] v[1] = "str" -> v[2] # <<>>
      [] v[1] = "num" -> v[2] # <<"0">>
      [] v[1] = "obj" -> DOMAIN v[2] # {}
      [] OTHER -> FALSE

Step1 == <<"STEP-1">>
Step2 == <<"STEP-2">>
Step3 == <<"STEP-3">>
Step4 == <<"STEP-4">>
KeySummary == <<"yoyak">>
KeyLacking == <<"bujokham">>
KeyConcept == <<"hawigaenyeom">>
KeyReason == <<"iyu">>

\* the exception type of the first failing lookup of a sequence, "" if none
FirstFault(lookups) ==
    LET bad == {i \in 1..Len(lookups) : ~lookups[i][1]}
    IN  IF bad = {} THEN ""
        ELSE lookups[CHOOSE i \in bad : \A k \in bad : i <= k][3]

\* mutant of NotAWorry: the wrong step is tested
NotAWorryWrongKey(gomin) == ~Truthy(Get(gomin, Step1)[2])

\* utils.py line 45: the test "not gomin_result['STEP-2']" (the key is there)
NotAWorry(gomin) == ~Truthy(Get(gomin, Step2)[2])

\* gongja.py lines 131-137: the lookups made while the messages are built
MessageLookups(gomin) ==
    << Get(gomin, Step1), Get2(gomin, Step3, KeySummary),
       Get2(gomin, Step4, KeyLacking), Get2(gomin, Step4, KeyConcept),
       Get2(gomin, Step4, KeyReason) >>

\* utils.py lines 18-32: the lookups made while row_data is built
RowLookups(data) ==
    << Get(data.gomin_result, Step1), Get2(data.gomin_result, Step3, KeySummary),
       Get2(data.gomin_result, Step4, KeyLacking),
       Get2(data.gomin_result, Step4, KeyConcept),
       Get2(data.gomin_result, Step4, KeyReason),
       Get(data.advice_result, Step2), Get(data.advice_result, Step3),
       Get(data.advice_result, Step4) >>

\* mutant of RowData: the quote and its reason are taken from each other's step
RowDataSwapped(data, stamp) ==
    [timestamp |-> stamp,
     source |-> data.source,
     email |-> data.email,
     original_concern |-> Get(data.gomin_result, Step1)[2],
     concern_summary |-> Get2(data.gomin_result, Step3, KeySummary)[2],
     lacking_aspect |-> Get2(data.gomin_result, Step4, KeyLacking)[2],
     concept |-> Get2(data.gomin_result, Step4, KeyConcept)[2],
     concept_reason |-> Get2(data.gomin_result, Step4, KeyReason)[2],
     selected_quote |-> Get(data.advice_result, Step3)[2],
     quote_reason |-> Get(data.advice_result, Step2)[2],
     advice |-> Get(data.advice_result, Step4)[2],
     analysis_time |-> data.time1,
     advice_time |-> data.time2]

\* utils.py lines 18-32: row_data (every lookup succeeds)
RowData(data, stamp) ==
    [timestamp |-> stamp,
     source |-> data.source,
     email |-> data.email,
     original_concern |-> Get(data.gomin_result, Step1)[2],
     concern_summary |-> Get2(data.gomin_result, Step3, KeySummary)[2],
     lacking_aspect |-> Get2(data.gomin_result, Step4, KeyLacking)[2],
     concept |-> Get2(data.gomin_result, Step4, KeyConcept)[2],
     concept_reason |-> Get2(data.gomin_result, Step4, KeyReason)[2],
     selected_quote |-> Get(data.advice_result, Step2)[2],
     quote_reason |-> Get(data.advice_result, Step3)[2],
     advice |-> Get(data.advice_result, Step4)[2],
     analysis_time |-> data.time1,
     advice_time |-> data.time2]

Columns ==
    <<"timestamp", "source", "email", "original_concern", "concern_summary",
      "lacking_aspect", "concept", "concept_reason", "selected_quote",
      "quote_reason", "advice", "analysis_time", "advice_time">>

HeaderLine == <<"header", Columns>>

\* mutant of WriteRow: the header is written by every call
WriteRowHeaderAlways(fs, p, row) ==
    IF p \in DOMAIN fs
    THEN [fs EXCEPT ![p] = @ \o <<HeaderLine, <<"row", row>>>>]
    ELSE (p :> <<HeaderLine, <<"row", row>>>>) @@ fs

\* mutant of WriteRow: the row is written twice
WriteRowTwice(fs, p, row) ==
    IF p \in DOMAIN fs
    THEN [fs EXCEPT ![p] = @ \o <<<<"row", row>>, <<"row", row>>>>]
    ELSE (p :> <<HeaderLine, <<"row", row>>, <<"row", row>>>>) @@ fs

\* utils.py lines 16 and 34-38: the file of period p after one more row;
\* the files that exist are the domain of fs
WriteRow(fs, p, row) ==
    IF p \in DOMAIN fs
    THEN [fs EXCEPT ![p] = Append(@, <<"row", row>>)]
    ELSE (p :> <<HeaderLine, <<"row", row>>>>) @@ fs

\* send_mail.py line 119: "if advice_result:"
ShouldReply(advice) == Truthy(advice)

(***************************************************************************)
(* The texts the model service may answer with.                            *)
(***************************************************************************)
Quoted(body) == <<"\"">> \o body \o <<"\"">>

Member(key, valueText) == Quoted(key) \o <<":", " ">> \o valueText

RECURSIVE JoinComma(_)
JoinComma(members) ==
    IF members = <<>> THEN <<>>
    ELSE IF Len(members) = 1 THEN members[1]
    ELSE members[1] \o <<",", " ">> \o JoinComma(Tail(members))

Object(members) == <<"{">> \o JoinComma(members) \o <<"}">>

\* a fenced block with a language-tag line
Fenced(tag, text) == Fence \o tag \o <<"\n">> \o text \o <<"\n">> \o Fence

GominFullText ==
    Object(<< Member(Step1, Quoted(<<"worry">>)),
              Member(Step2, <<"true">>),
              Member(Step3, Object(<<Member(KeySummary, Quoted(<<"summary">>))>>)),
              Member(Step4, Object(<< Member(KeyLacking, Quoted(<<"lacking">>)),
                                      Member(KeyConcept, Quoted(<<"concept">>)),
                                      Member(KeyReason, Quoted(<<"reason">>)) >>)) >>)

GominNotWorryText ==
    Object(<< Member(Step1, Quoted(<<"hello">>)), Member(Step2, <<"false">>) >>)

GominNoStep4Text ==
    Object(<< Member(Step1, Quoted(<<"worry">>)),
              Member(Step2, <<"true">>),
              Member(Step3, Object(<<Member(KeySummary, Quoted(<<"summary">>))>>)) >>)

GominNoStep2Text == Object(<< Member(Step1, Quoted(<<"worry">>)) >>)

NotJsonText == <<"not", " ", "json", " ", "at", " ", "all">>

AdviceFullText ==
    Object(<< Member(Step1, Object(<< Member(<<"gomin">>, Quoted(<<"restated">>)),
                                      Member(<<"bujok">>, Quoted(<<"lack">>)),
                                      Member(KeyConcept, Quoted(<<"concept">>)),
                                      Member(KeyReason, Quoted(<<"why">>)) >>)),
              Member(Step2, Quoted(<<"passage">>)),
              Member(Step3, Quoted(<<"passage_reason">>)),
              Member(Step4, Quoted(<<"advice">>)) >>)

AdviceNoStep3Text ==
    Object(<< Member(Step2, Quoted(<<"passage">>)),
              Member(Step4, Quoted(<<"advice">>)) >>)

GominTexts ==
    { GominFullText,
      Marker \o <<" ", ":", " ">> \o GominFullText,
      GominNotWorryText,
      Fenced(<<"json">>, GominNotWorryText),
      GominNoStep4Text,
      GominNoStep2Text,
      <<"1">>,
      NotJsonText,
      <<"\n">> \o NotJsonText }

AdviceTexts ==
    { AdviceFullText,
      <<"answer", "\n">> \o Marker \o <<"\n">> \o Fenced(<<"json">>, AdviceFullText),
      AdviceNoStep3Text,
      Object(<<>>),
      <<" ", ":">> \o NotJsonText }

Responses(texts) == {<<"content", t>> : t \in texts} \cup {<<"nocontent">>, <<"nochoices">>}

ExecTimes == {1, 2}

(***************************************************************************)
(* State.                                                                  *)
(***************************************************************************)
VARIABLES
    mode,           \* "console" or "email" (main.py --mode); "extract" in ExtractSpec
    unwrapped,      \* ExtractSpec: the record text the response was wrapped around
    pending,        \* worries the user has yet to submit, or messages yet to fetch
    pos,            \* number of worries submitted, or of messages fetched, so far
    pc,             \* position of the program
    response,       \* what the last _call_gpt returned
    result,         \* outcome of the last _parse_response
    gomin_result,   \* utils.py line 43
    advice_result,  \* utils.py line 52
    time1,          \* utils.py line 43
    time2,          \* utils.py line 52
    ret,            \* what process_and_save_concern returned
    files,          \* the log files: period -> lines; its domain are the files that exist
    now,            \* the period (year and month) of datetime.now()
    sent,           \* the auto-replies sent
    error,          \* type of the exception that ended the run, "" if none
    failed_at,      \* the step that raised it
    calls,          \* _call_gpt calls of the current process_and_save_concern
    advised,        \* generate_advice was invoked by the current process_and_save_concern
    saves,          \* rows appended by the current process_and_save_concern
    attempted,      \* period -> number of save_to_csv calls made in it
    completed       \* period -> rows of the save_to_csv calls that returned in it

vars ==
    << mode, unwrapped, pending, pos, pc, response, result, gomin_result, advice_result,
       time1, time2, ret, files, now, sent, error, failed_at, calls, advised,
       saves, attempted, completed >>

Periods == 1..MaxPeriod

NoResponse == <<"unset">>

NoResult ==
    [kind |-> "none", value |-> NoValue, exc |-> "", args |-> <<>>,
     context |-> <<>>, printed |-> <<>>, after_marker |-> <<>>,
     json_text |-> <<>>]

Init ==
    /\ mode \in {"console", "email"}
    /\ unwrapped = <<>>
    /\ pending \in 0..MaxItems
    /\ pos = 0
    /\ pc = "loop"
    /\ response = NoResponse
    /\ result = NoResult
    /\ gomin_result = NoValue
    /\ advice_result = NoValue
    /\ time1 = 0
    /\ time2 = 0
    /\ ret = NoValue
    /\ files = [p \in {} |-> <<>>]
    /\ now = 1
    /\ sent = <<>>
    /\ error = ""
    /\ failed_at = ""
    /\ calls = 0
    /\ advised = FALSE
    /\ saves = 0
    /\ attempted = [p \in Periods |-> 0]
    /\ completed = [p \in Periods |-> <<>>]

(***************************************************************************)
(* The run: main() -> process_console_input / process_email -> read_emails *)
(* -> process_single_email -> process_and_save_concern.                    *)
(***************************************************************************)
invocation ==
    << response, result, gomin_result, advice_result, time1, time2, ret,
       calls, advised, saves >>

logs == << files, attempted, completed >>

\* An exception leaves process_and_save_concern and the loop around it and is
\* caught by main (main.py line 147) or process_email (main.py line 118),
\* which print it; the run ends.
Fail(exc, step) ==
    /\ pc' = "done"
    /\ error' = exc
    /\ failed_at' = step

NoFail == UNCHANGED << error, failed_at >>

\* the locals of process_and_save_concern, before it runs and after the caller
\* is done with what it returned
Fresh ==
    /\ response' = NoResponse
    /\ result' = NoResult
    /\ gomin_result' = NoValue
    /\ advice_result' = NoValue
    /\ time1' = 0
    /\ time2' = 0
    /\ ret' = NoValue
    /\ calls' = 0
    /\ advised' = FALSE
    /\ saves' = 0

\* main.py lines 91-93: the user, who has no worry left, types quit or exit
ConsoleQuit ==
    /\ mode = "console" /\ pc = "loop" /\ pending = 0
    /\ pc' = "done"
    /\ UNCHANGED << mode, unwrapped, pending, pos, invocation, logs, now, sent, error, failed_at >>

\* main.py lines 95-97 and 100-103: a choice other than 1 or 2, or an empty worry
ConsoleReject ==
    /\ mode = "console" /\ pc = "loop"
    /\ UNCHANGED << mode, unwrapped, pending, pos, pc, invocation, logs, now, sent, error, failed_at >>

\* main.py lines 99-108: a worry typed in or picked from the catalogue
ConsoleSubmit ==
    /\ mode = "console" /\ pc = "loop" /\ pending > 0
    /\ pending' = pending - 1
    /\ pos' = pos + 1
    /\ pc' = "classify"
    /\ UNCHANGED invocation
    /\ UNCHANGED << mode, unwrapped, logs, now, sent, error, failed_at >>

\* main.py line 108: process_and_save_concern returned; its value is dropped
ConsoleContinue ==
    /\ mode = "console" /\ pc = "returned"
    /\ pc' = "loop"
    /\ Fresh
    /\ UNCHANGED << mode, unwrapped, pending, pos, logs, now, sent, error, failed_at >>

\* send_mail.py lines 143-147: no message is left
EmailExhausted ==
    /\ mode = "email" /\ pc = "loop" /\ pending = 0
    /\ pc' = "done"
    /\ UNCHANGED << mode, unwrapped, pending, pos, invocation, logs, now, sent, error, failed_at >>

\* send_mail.py lines 107 and 129-131: the subject has no trigger word
EmailSkip ==
    /\ mode = "email" /\ pc = "loop" /\ pending > 0
    /\ pending' = pending - 1
    /\ pos' = pos + 1
    /\ UNCHANGED << mode, unwrapped, pc, invocation, logs, now, sent, error, failed_at >>

\* send_mail.py lines 107-117: the subject has a trigger word
EmailSubmit ==
    /\ mode = "email" /\ pc = "loop" /\ pending > 0
    /\ pending' = pending - 1
    /\ pos' = pos + 1
    /\ pc' = "classify"
    /\ UNCHANGED invocation
    /\ UNCHANGED << mode, unwrapped, logs, now, sent, error, failed_at >>

\* utils.py line 43, gongja.py lines 97-107: process_gomin
ProcessGomin ==
    /\ pc = "classify"
    /\ calls' = calls + 1
    /\ \/ /\ Fail("TransportError", "classify")
          /\ UNCHANGED << response, result, gomin_result, time1 >>
       \/ \E r \in Responses(GominTexts), t \in ExecTimes :
            LET out == ParseResponse(r)
            IN  /\ response' = r
                /\ result' = out
                /\ IF out.kind = "return"
                   THEN /\ gomin_result' = out.value
                        /\ time1' = t
                        /\ pc' = "check"
                        /\ NoFail
                   ELSE /\ Fail(out.exc, "classify")
                        /\ UNCHANGED << gomin_result, time1 >>
    /\ UNCHANGED << mode, unwrapped, pending, pos, advice_result, time2, ret, advised, saves,
                    logs, now, sent >>

\* utils.py lines 45-47: the test of STEP-2
CheckWorry ==
    /\ pc = "check"
    /\ LET step2 == Get(gomin_result, Step2)
       IN  IF ~step2[1]
           THEN Fail(step2[3], "check") /\ UNCHANGED ret
           ELSE IF NotAWorry(gomin_result)
           THEN pc' = "returned" /\ ret' = PyNone /\ NoFail
           ELSE pc' = "advise" /\ UNCHANGED ret /\ NoFail
    /\ UNCHANGED << mode, unwrapped, pending, pos, response, result, gomin_result, advice_result,
                    time1, time2, calls, advised, saves, logs, now, sent >>

\* utils.py line 52, gongja.py lines 126-140: generate_advice; the corpus is
\* loaded and the messages are built before the model is called
GenerateAdvice ==
    /\ pc = "advise"
    /\ advised' = TRUE
    /\ \/ /\ Fail("OSError", "advise")
          /\ UNCHANGED << response, result, advice_result, time2, calls >>
       \/ /\ FirstFault(MessageLookups(gomin_result)) # ""
          /\ Fail(FirstFault(MessageLookups(gomin_result)), "advise")
          /\ UNCHANGED << response, result, advice_result, time2, calls >>
       \/ /\ FirstFault(MessageLookups(gomin_result)) = ""
          /\ calls' = calls + 1
          /\ \/ /\ Fail("TransportError", "advise")
                /\ UNCHANGED << response, result, advice_result, time2 >>
             \/ \E r \in Responses(AdviceTexts), t \in ExecTimes :
                  LET out == ParseResponse(r)
                  IN  /\ response' = r
                      /\ result' = out
                      /\ IF out.kind = "return"
                         THEN /\ advice_result' = out.value
                              /\ time2' = t
                              /\ pc' = "save"
                              /\ NoFail
                         ELSE /\ Fail(out.exc, "advise")
                              /\ UNCHANGED << advice_result, time2 >>
    /\ UNCHANGED << mode, unwrapped, pending, pos, gomin_result, time1, ret, saves, logs, now, sent >>

\* utils.py lines 56-63: the dict handed to save_to_csv
Data ==
    [source |-> mode,
     email |-> IF mode = "email" THEN pos ELSE 0,
     gomin_result |-> gomin_result,
     advice_result |-> advice_result,
     time1 |-> time1,
     time2 |-> time2]

\* mutant of SaveToCsv: a failure of save_to_csv is swallowed and the advice
\* is returned all the same
SaveToCsvBestEffort ==
    /\ pc = "save"
    /\ attempted' = [attempted EXCEPT ![now] = @ + 1]
    /\ LET fault == FirstFault(RowLookups(Data))
           row == RowData(Data, now)
       IN  IF fault # ""
           THEN UNCHANGED << files, completed, saves >>
           ELSE /\ files' = WriteRow(files, now, row)
                /\ completed' = [completed EXCEPT ![now] = Append(@, row)]
                /\ saves' = saves + 1
    /\ ret' = advice_result
    /\ pc' = "returned"
    /\ NoFail
    /\ UNCHANGED << mode, unwrapped, pending, pos, response, result, gomin_result,
                    advice_result, time1, time2, calls, advised, now, sent >>

\* utils.py lines 56-76: save_to_csv, the printed report and the return
SaveToCsv ==
    /\ pc = "save"
    /\ attempted' = [attempted EXCEPT ![now] = @ + 1]
    /\ LET fault == FirstFault(RowLookups(Data))
           row == RowData(Data, now)
       IN  IF fault # ""
           THEN /\ Fail(fault, "save")
                /\ UNCHANGED << files, completed, saves, ret >>
           ELSE /\ files' = WriteRow(files, now, row)
                /\ completed' = [completed EXCEPT ![now] = Append(@, row)]
                /\ saves' = saves + 1
                /\ ret' = advice_result
                /\ pc' = "returned"
                /\ NoFail
    /\ UNCHANGED << mode, unwrapped, pending, pos, response, result, gomin_result, advice_result,
                    time1, time2, calls, advised, now, sent >>

\* send_mail.py lines 119-128 and 77-99: the reply to the sender.  The
\* template is loaded outside the try block; an SMTP failure is caught.
EmailReply ==
    /\ mode = "email" /\ pc = "returned"
    /\ IF ShouldReply(ret)
       THEN LET message == Get(ret, Step4)
            IN  IF ~message[1]
                THEN Fail(message[3], "reply") /\ UNCHANGED << sent, invocation >>
                ELSE \/ /\ sent' = Append(sent, [item |-> pos, message |-> message[2]])
                        /\ pc' = "loop"
                        /\ Fresh
                        /\ NoFail
                     \/ /\ UNCHANGED sent
                        /\ pc' = "loop"
                        /\ Fresh
                        /\ NoFail
                     \/ /\ Fail("TemplateNotFound", "reply")
                        /\ UNCHANGED << sent, invocation >>
       ELSE pc' = "loop" /\ Fresh /\ UNCHANGED sent /\ NoFail
    /\ UNCHANGED << mode, unwrapped, pending, pos, logs, now >>

\* The calendar month changes.  datetime.now() is read by save_to_csv alone
\* (utils.py lines 15 and 19), so a change is only observed between two worries.
Tick ==
    /\ pc = "loop"
    /\ now < MaxPeriod
    /\ now' = now + 1
    /\ UNCHANGED << mode, unwrapped, pending, pos, pc, invocation, logs, sent, error, failed_at >>

Next ==
    \/ ConsoleQuit
    \/ ConsoleReject
    \/ ConsoleSubmit
    \/ ConsoleContinue
    \/ EmailExhausted
    \/ EmailSkip
    \/ EmailSubmit
    \/ ProcessGomin
    \/ CheckWorry
    \/ GenerateAdvice
    \/ SaveToCsv
    \/ EmailReply
    \/ Tick

Spec == Init /\ [][Next]_vars

(***************************************************************************)
(* _parse_response on its own: ExtractSpec draws a response and applies    *)
(* _parse_response to it.                                                  *)
(***************************************************************************)
MaxPad == 1

\* what a model puts inside JSON strings: letters, colons, backticks, the marker
StringBodies ==
    { <<>>, <<"a">>, <<":">>, Fence, Marker,
      <<"see", " ">> \o Marker \o <<":">>,
      Marker \o <<"1">> \o Marker }

Scalars ==
    {Quoted(b) : b \in StringBodies} \cup {<<"1">>, <<"true">>, <<"null">>}

Records ==
    {Object(<<>>)}
    \cup {Object(<<Member(<<"a">>, v)>>) : v \in Scalars}
    \cup {Object(<<Member(<<"a">>, v), Member(<<"b">>, Object(<<Member(<<"c">>, w)>>))>>) :
            v \in {<<"1">>, Quoted(<<"a">>)}, w \in Scalars}

\* blanks, newlines and colons around the JSON text
Pads == UNION {[1..k -> {" ", "\n", ":"}] : k \in 0..MaxPad}

BrokenTexts ==
    { NotJsonText, <<>>, <<"{">>, <<"{", "}", "}">>, Fence,
      Object(<<Member(<<"a">>, <<"1">>)>>) \o <<",">>,
      <<"{">> \o Quoted(<<"a">>) \o <<"}">>,
      Quoted(<<"a", "\n", "b">>),
      <<"0", "1">>,
      Fence \o <<"json">> \o Object(<<>>) \o Fence }

\* what precedes the code fence: nothing, the marker, or commentary and the marker
Leads ==
    { <<>>, Marker, Marker \o <<"\n">>, Marker \o <<" ">>,
      <<"here", " ", "it", " ", "is", ":", "\n">> \o Marker \o <<"\n">>,
      Fence \o <<"\n">> \o Marker }

Tags == {<<>>, <<"json">>}

Closings == {<<"\n">> \o Fence, Fence, <<"\n">> \o Fence \o <<"\n">>}

\* optional commentary + marker + fenced block with a language-tag line + closing fence
Wrap(lead, tag, record, closing) ==
    lead \o Fence \o tag \o <<"\n">> \o record \o closing

\* the example of the specification: a fenced {"a":1}
ExampleRecord == <<"{", "\"", "a", "\"", ":", "1", "}">>
FencedExample == Fenced(<<"json">>, ExampleRecord)

\* pairs <<response, unwrapped>>
ExtractInputs ==
    {<< <<"content", FencedExample>>, ExampleRecord >>} \cup
    {<< <<"content", pre \o doc \o post>>, <<>> >> :
        pre \in Pads, post \in Pads, doc \in Scalars \cup Records}
    \cup {<< <<"content", lead \o pad \o doc>>, <<>> >> :
        lead \in Leads \ {<<>>}, pad \in Pads, doc \in Records}
    \cup {<< <<"content", Wrap(lead, tag, rec, closing)>>, rec >> :
        lead \in Leads, tag \in Tags, rec \in Records, closing \in Closings}
    \cup {<< <<"content", t>>, <<>> >> : t \in BrokenTexts}
    \cup {<< <<"nocontent">>, <<>> >>}
    \cup {<< <<shape>>, <<>> >> : shape \in ContentUnassigned}

ExtractInit ==
    /\ mode = "extract"
    /\ \E input \in ExtractInputs :
          /\ response = input[1]
          /\ unwrapped = input[2]
    /\ pending = 0
    /\ pos = 0
    /\ pc = "extract"
    /\ result = NoResult
    /\ gomin_result = NoValue
    /\ advice_result = NoValue
    /\ time1 = 0
    /\ time2 = 0
    /\ ret = NoValue
    /\ files = [p \in {} |-> <<>>]
    /\ now = 1
    /\ sent = <<>>
    /\ error = ""
    /\ failed_at = ""
    /\ calls = 0
    /\ advised = FALSE
    /\ saves = 0
    /\ attempted = [p \in Periods |-> 0]
    /\ completed = [p \in Periods |-> <<>>]

\* gongja.py lines 57-95: one call of _parse_response
Extract ==
    /\ pc = "extract"
    /\ result' = ParseResponse(response)
    /\ pc' = "extracted"
    /\ UNCHANGED << mode, unwrapped, pending, pos, response, gomin_result,
                    advice_result, time1, time2, ret, logs, now, sent, error,
                    failed_at, calls, advised, saves >>

ExtractNext == Extract

ExtractSpec == ExtractInit /\ [][ExtractNext]_vars

(***************************************************************************)
(* Properties.                                                             *)
(***************************************************************************)
Range(seq) == {seq[i] : i \in 1..Len(seq)}

\* the rows of all the log files
RowLines ==
    UNION {{<<p, i>> : i \in {j \in 1..Len(files[p]) : files[p][j][1] = "row"}} :
             p \in DOMAIN files}

\* the classification record says is_worry = false
IsWorryFalse ==
    /\ gomin_result[1] = "obj"
    /\ Step2 \in DOMAIN gomin_result[2]
    /\ gomin_result[2][Step2] = <<"bool", FALSE>>

C1_State ==
    IsWorryFalse =>
        /\ ~advised
        /\ calls = 1
        /\ saves = 0
        /\ advice_result = NoValue
        /\ pc \in {"check", "returned"}
        /\ (pc = "returned" => ret = PyNone)

C1_Step == IsWorryFalse => (sent' = sent /\ files' = files)

\* C1: when the classification record has is_worry (STEP-2) false,
\* generate_advice is not invoked, no second model call is made, no log row
\* is appended, process_and_save_concern returns None, and in email mode no
\* auto-reply is sent for the message.
C1_NotAWorryStops == []C1_State /\ [][C1_Step]_vars

\* C1 witness: in email mode process_and_save_concern has returned for a
\* message classified as not a worry
C1_Witness == mode = "email" /\ pc = "returned" /\ IsWorryFalse

\* C2: a worry whose processing fails does not end the console loop or the
\* email batch: when the run has ended, every worry of the sequence has been
\* taken up.
C2_FailuresIsolated == pc = "done" => pending = 0

\* an invocation of process_and_save_concern is over
InvocationOver == pc = "returned" \/ (pc = "done" /\ error # "")

C3_State ==
    /\ calls \in 0..2
    /\ (InvocationOver => calls \in {1, 2})
    /\ saves \in {0, 1}
    /\ Cardinality(RowLines) <= pos
    /\ (calls = 2 => (advised /\ gomin_result # NoValue))

\* C3: every invocation of process_and_save_concern, whatever its outcome,
\* makes one or two model calls and appends at most one row to the log; the
\* second call is made only after the first has returned and its record has
\* been extracted.
C3_CallsAndAppends == C3_State

\* C3 witness: an invocation that made both calls and appended its row
C3_Witness == pc = "returned" /\ calls = 2 /\ saves = 1

\* json.loads fails on the text _parse_response trimmed out of the response
DecodeFailed == response[1] = "content" /\ ~JsonLoads(JsonText(response[2]))[1]

\* the texts the raised error carries: its args and the document of the
\* chained JSONDecodeError
Carried == Range(result.args) \cup Range(result.context)

\* C4 as claimed: the error raised on a JSON parsing failure carries both the
\* original raw model text and the trimmed text that was parsed.
C4_ErrorCarriesTexts ==
    DecodeFailed =>
        /\ result.kind = "raise"
        /\ response[2] \in Carried
        /\ JsonText(response[2]) \in Carried

\* C4 as amended: a JSON parsing failure reaches the caller as a ValueError
\* whose only argument is the fixed message; the trimmed text is carried by
\* the chained JSONDecodeError alone, the raw text and the trimmed text are
\* printed; nothing is recovered and the stage that called fails.
C4_ErrorIsBareValueError ==
    DecodeFailed =>
        /\ result.kind = "raise"
        /\ result.exc = "ValueError"
        /\ result.args = <<ParseFailureMessage>>
        /\ result.context = <<JsonText(response[2])>>
        /\ {response[2], JsonText(response[2])} \subseteq Range(result.printed)
        /\ pc = "done"
        /\ error = "ValueError"
        /\ failed_at \in {"classify", "advise"}
        /\ (failed_at = "classify" => gomin_result = NoValue)
        /\ advice_result = NoValue
        /\ ret = NoValue
        /\ saves = 0

\* C4 witness: a stage failed on a text whose trimmed form differs from the
\* raw text
C4_Witness ==
    /\ DecodeFailed
    /\ pc = "done"
    /\ response[2] # JsonText(response[2])

\* the response is a text that is valid JSON as it stands
PlainJson == response[1] = "content" /\ JsonLoads(response[2])[1]

\* C5 as claimed: every valid plain JSON text not starting with a code fence
\* is extracted to exactly the record that parsing it directly gives.
C5_PlainJsonUnchanged ==
    (pc = "extracted" /\ PlainJson /\ ~StartsWith(response[2], Fence)) =>
        /\ result.kind = "return"
        /\ result.value = JsonLoads(response[2])[2]

\* C5 as amended: every valid plain JSON text that does not start with a
\* code fence and does not contain the marker token is extracted to exactly
\* the record that parsing it directly gives.
C5_PlainJsonWithoutMarkerUnchanged ==
    (/\ pc = "extracted"
     /\ PlainJson
     /\ ~StartsWith(response[2], Fence)
     /\ ~Contains(response[2], Marker)) =>
        /\ result.kind = "return"
        /\ result.value = JsonLoads(response[2])[2]

\* C5 witness: a padded JSON record with a string of backticks was extracted
C5_Witness ==
    /\ pc = "extracted"
    /\ PlainJson
    /\ ~Contains(response[2], Marker)
    /\ Contains(response[2], Fence)
    /\ response[2][1] \in PyWhitespace
    /\ result.kind = "return"

\* the response has the marker, with or without commentary, before the fence
MarkerLed == \E lead \in Leads \ {<<>>} : StartsWith(response[2], lead \o Fence)

\* C6: a record wrapped as optional commentary + marker + fenced block with a
\* language-tag line + closing fence is extracted to the record of its
\* unwrapped text, and so is the fenced example of the specification.
C6_WrappedRecordExtracted ==
    (pc = "extracted" /\ unwrapped # <<>> /\ (MarkerLed \/ response[2] = FencedExample)) =>
        /\ result.kind = "return"
        /\ result.value = JsonLoads(unwrapped)[2]

\* what follows the first marker of the response, trimmed
RemainderAfterMarker ==
    Strip(From(response[2], Find(response[2], Marker, 1) + Len(Marker)), PyWhitespace)

\* C9: when the output contains the marker, everything up to and including
\* the marker is discarded and the whole remainder of the text is what goes
\* on to fence stripping and parsing.
C9_WholeRemainderKept ==
    (pc = "extracted" /\ response[1] = "content" /\ Contains(response[2], Marker)) =>
        result.after_marker = RemainderAfterMarker

\* the row that the save_to_csv call of the current invocation appended
SavedRow == files[now][Len(files[now])][2]

\* process_and_save_concern has just saved a row and returned
RowSaved == pc = "returned" /\ saves = 1

DataColumns ==
    {"original_concern", "concern_summary", "lacking_aspect", "concept",
     "concept_reason", "selected_quote", "quote_reason", "advice"}

\* the fields of the two records: raw_input, is_worry, summary,
\* lacking_aspect, chosen_subconcept, reason; the restated fields,
\* selected_passage, passage_reason, advice
SourceFields ==
    { Get(gomin_result, Step1)[2], Get(gomin_result, Step2)[2],
      Get2(gomin_result, Step3, KeySummary)[2],
      Get2(gomin_result, Step4, KeyLacking)[2],
      Get2(gomin_result, Step4, KeyConcept)[2],
      Get2(gomin_result, Step4, KeyReason)[2],
      Get2(advice_result, Step1, <<"gomin">>)[2],
      Get2(advice_result, Step1, <<"bujok">>)[2],
      Get2(advice_result, Step1, KeyConcept)[2],
      Get2(advice_result, Step1, KeyReason)[2],
      Get(advice_result, Step2)[2], Get(advice_result, Step3)[2],
      Get(advice_result, Step4)[2] }

\* C7 as claimed: the row reproduces every field of the classification
\* record and of the advice record with its original value.
C7_RowHasEveryField ==
    RowSaved => \A v \in SourceFields : \E c \in DataColumns : SavedRow[c] = v

\* C7 as amended: the row reproduces unchanged raw_input, summary,
\* lacking_aspect, chosen_subconcept and reason of the classification record
\* and selected_passage, passage_reason and advice of the advice record, with
\* the provenance; is_worry and the restated fields of the advice record are
\* not in the row.
C7_RowHasLoggedFields ==
    RowSaved =>
        /\ DOMAIN SavedRow = Range(Columns)
        /\ SavedRow.original_concern = Get(gomin_result, Step1)[2]
        /\ SavedRow.concern_summary = Get2(gomin_result, Step3, KeySummary)[2]
        /\ SavedRow.lacking_aspect = Get2(gomin_result, Step4, KeyLacking)[2]
        /\ SavedRow.concept = Get2(gomin_result, Step4, KeyConcept)[2]
        /\ SavedRow.concept_reason = Get2(gomin_result, Step4, KeyReason)[2]
        /\ SavedRow.selected_quote = Get(advice_result, Step2)[2]
        /\ SavedRow.quote_reason = Get(advice_result, Step3)[2]
        /\ SavedRow.advice = Get(advice_result, Step4)[2]
        /\ SavedRow.source = mode
        /\ SavedRow.analysis_time = time1
        /\ SavedRow.advice_time = time2
        /\ \A c \in DataColumns : SavedRow[c] # NoValue
        /\ \A c \in DataColumns :
              /\ SavedRow[c] # Get(gomin_result, Step2)[2]
              /\ SavedRow[c] # Get(advice_result, Step1)[2]

\* C7 witness: a row was saved from a full pair of records
C7_Witness ==
    /\ RowSaved
    /\ Get(advice_result, Step1)[1]
    /\ SavedRow.advice = <<"str", <<"advice">>>>

\* C8 as claimed: the file of each period is one header line followed by one
\* row per save_to_csv call made in that period.
C8_OneRowPerCall ==
    \A p \in Periods :
        attempted[p] > 0 => (p \in DOMAIN files /\ Len(files[p]) = 1 + attempted[p])

C8_Structure ==
    /\ DOMAIN files \subseteq Periods
    /\ \A p \in Periods :
          IF completed[p] = <<>>
          THEN p \notin DOMAIN files
          ELSE /\ p \in DOMAIN files
               /\ files[p] = <<HeaderLine>> \o
                     [i \in 1..Len(completed[p]) |-> <<"row", completed[p][i]>>]

C8_AppendOnly ==
    \A p \in DOMAIN files :
        /\ p \in DOMAIN files'
        /\ Len(files'[p]) \in {Len(files[p]), Len(files[p]) + 1}
        /\ SubSeq(files'[p], 1, Len(files[p])) = files[p]

\* C8 as amended: the file of each period is one header line followed by one
\* row per save_to_csv call that returned in that period, in call order; a
\* call that raises on a missing key writes nothing and creates no file; the
\* header is written by the call that creates the file, every later call
\* that returns appends one row, and no call changes or removes a line.
C8_HeaderThenRowsOfCompletedCalls == []C8_Structure /\ [][C8_AppendOnly]_vars

\* C8 witness: two calls made in the same period left a header and two rows
C8_Witness ==
    \E p \in DOMAIN files : Len(files[p]) = 3 /\ attempted[p] = 2

\* a row of the log files was written for message n
RowFor(n) == \E x \in RowLines : files[x[1]][x[2]][2].email = n

C10_State ==
    /\ (saves > 0 => (gomin_result # NoValue /\ advice_result # NoValue /\ calls = 2))
    /\ ((pc = "done" /\ failed_at = "advise") =>
            /\ saves = 0
            /\ advice_result = NoValue
            /\ (mode = "email" => ~RowFor(pos))
            /\ \A i \in 1..Len(sent) : sent[i].item # pos)

C10_Step ==
    /\ (files' # files =>
            /\ pc = "save"
            /\ gomin_result # NoValue
            /\ advice_result # NoValue
            /\ calls = 2)
    /\ (sent' # sent =>
            /\ pc = "returned"
            /\ saves = 1
            /\ RowFor(pos)
            /\ sent' = Append(sent, [item |-> pos, message |-> SavedRow.advice]))

\* C10: a log row is appended only after both stages returned extracted
\* records, an auto-reply is sent only after that row was appended, and when
\* the advise stage fails no row is appended and no reply is sent.
C10_EffectsInOrder == []C10_State /\ [][C10_Step]_vars

\* C10 witness: a reply was sent
C10_Witness == sent # <<>> /\ RowFor(sent[1].item)

(***************************************************************************)
(* C11: every failure inside _parse_response reaches the caller as a       *)
(* ValueError, whether the trimmed text does not decode or the response    *)
(* lacks the expected structure (no 'choices' entry, an empty choices      *)
(* list, a missing or None message content).                               *)
(***************************************************************************)
\* C11 as stated: whenever _parse_response raised, it raised ValueError.
\* Violated: when line 61 raises before content is assigned, the handler's
\* own print of content (line 94) raises UnboundLocalError instead.
C11_EveryFailureIsValueError ==
    (pc = "extracted" /\ result.kind = "raise") => result.exc = "ValueError"

====
